---- MODULE Spec2Model ----
(***************************************************************************)
(* flint.arrow: marshallers between Python values and Arrow scalars and    *)
(* arrays, and the derivation of a marshaller from a type.                 *)
(*                                                                         *)
(* A type is a record: a plain class [kind |-> "class", name], a           *)
(* parameterised alias [kind |-> "alias", origin, origin_is_class, args]   *)
(* (list[int], dict[str, int], tuple[int, str], Union[int, str], ...) or a *)
(* dataclass [kind |-> "dataclass", name, fields].                         *)
(* A Python value is a record with a tag; an Arrow scalar is a record      *)
(* [tag |-> "Scalar", type, valid, value]; an Arrow array is a record      *)
(* [tag |-> "Array", type, items].                                         *)
(* Every operation returns an outcome: Ok(value, calls) or Err(exception), *)
(* where calls is the set of <<child, method>> invocations the marshaller  *)
(* made on its own child marshallers.                                      *)
(***************************************************************************)
EXTENDS Integers, Sequences, FiniteSets, TLC

VARIABLES
    cls,         \* the type the marshaller was obtained for
    marshaller,  \* the outcome of obtaining it: Ok(marshaller) or Err(exception)
    op,          \* the last operation
    provenance,  \* where the last operation's argument came from
    arg,         \* the last operation's argument
    py,          \* the Python value the last encoding started from
    result       \* the last operation's outcome

vars == <<cls, marshaller, op, provenance, arg, py, result>>

\* Longest list, dict or Arrow list/map value drawn as an input.
MaxLen == 2
\* Longest sequence of values drawn as the input of to_arrow_array.
MaxArr == 2

-----------------------------------------------------------------------------
(* Outcomes *)

Ok(v, calls) == [ok |-> TRUE, val |-> v, calls |-> calls]
Err(e) == [ok |-> FALSE, err |-> e, calls |-> {}]

-----------------------------------------------------------------------------
(* Types: what typing.get_origin, typing.get_args and dataclasses see *)

Class(name) == [kind |-> "class", name |-> name]
Alias(origin, origin_is_class, args) ==
    [kind |-> "alias", origin |-> origin, origin_is_class |-> origin_is_class, args |-> args]
\* A dataclass field: f.name, f.type, f.metadata.get('arrow_marshaller') and
\* whether the generated __init__ has a default for it.
DataField(name, type, arrow_marshaller, has_default, default) ==
    [name |-> name, type |-> type, arrow_marshaller |-> arrow_marshaller,
     has_default |-> has_default, default |-> default]
Dataclass(name, fields) == [kind |-> "dataclass", name |-> name, fields |-> fields]

\* f.metadata.get('arrow_marshaller') is None
NoMarshaller == [kind |-> "None"]

is_dataclass(c) == c.kind = "dataclass"

\* issubclass(get_origin(cls), Sequence) / issubclass(get_origin(cls), Mapping)
SequenceOrigins == {"list", "tuple", "Sequence"}
MappingOrigins == {"dict", "Mapping"}

-----------------------------------------------------------------------------
(* Arrow data types *)

BasicType(id) == [id |-> id]
pa_list_(value_type) == [id |-> "list", value_type |-> value_type]
pa_map_(key_type, item_type) == [id |-> "map", key_type |-> key_type, item_type |-> item_type]
pa_struct(fields) == [id |-> "struct", fields |-> fields]

-----------------------------------------------------------------------------
(* Marshallers *)

BasicTypeArrowMarshaller(py_type, arrow_type) ==
    [kind |-> "Basic", py_type |-> py_type, arrow_dtype |-> arrow_type]

null == BasicTypeArrowMarshaller("NoneType", BasicType("null"))
boolean == BasicTypeArrowMarshaller("bool", BasicType("bool"))
int8 == BasicTypeArrowMarshaller("int", BasicType("int8"))
int16 == BasicTypeArrowMarshaller("int", BasicType("int16"))
int32 == BasicTypeArrowMarshaller("int", BasicType("int32"))
int64 == BasicTypeArrowMarshaller("int", BasicType("int64"))
uint8 == BasicTypeArrowMarshaller("int", BasicType("uint8"))
uint16 == BasicTypeArrowMarshaller("int", BasicType("uint16"))
uint32 == BasicTypeArrowMarshaller("int", BasicType("uint32"))
uint64 == BasicTypeArrowMarshaller("int", BasicType("uint64"))
float16 == BasicTypeArrowMarshaller("float", BasicType("halffloat"))
float32 == BasicTypeArrowMarshaller("float", BasicType("float"))
float64 == BasicTypeArrowMarshaller("float", BasicType("double"))
string == BasicTypeArrowMarshaller("str", BasicType("string"))
binary == BasicTypeArrowMarshaller("bytes", BasicType("binary"))

ListArrowMarshaller(elem) ==
    [kind |-> "List", elem |-> elem, arrow_dtype |-> pa_list_(elem.arrow_dtype)]

MapArrowMarshaller(key, value) ==
    [kind |-> "Map", key |-> key, value |-> value,
     arrow_dtype |-> pa_map_(key.arrow_dtype, value.arrow_dtype)]

\* isinstance(m, BasicTypeArrowMarshaller)
IsBasic(m) == m.kind = "Basic"

RECURSIVE derive_arrow_marshaller(_)
RECURSIVE derive_fields(_, _)

\* A mutation of derive_arrow_marshaller_for_field: the metadata is not consulted.
derive_for_field_ignoring_metadata(f) == derive_arrow_marshaller(f.type)

derive_arrow_marshaller_for_field(f) ==
    IF f.arrow_marshaller # NoMarshaller
    THEN Ok(f.arrow_marshaller, {})
    ELSE derive_arrow_marshaller(f.type)

\* The dict comprehension of StructArrowMarshaller.__init__ over the fields
\* fs[i..]: the <<name, marshaller>> pairs in declaration order, or the first
\* exception a field's derivation raises.
derive_fields(fs, i) ==
    IF i > Len(fs) THEN Ok(<<>>, {})
    ELSE LET d == derive_arrow_marshaller_for_field(fs[i])
         IN  IF ~d.ok THEN d
             ELSE LET rest == derive_fields(fs, i + 1)
                  IN  IF ~rest.ok THEN rest
                      ELSE Ok(<< <<fs[i].name, d.val>> >> \o rest.val, {})

StructArrowMarshaller(c) ==
    LET fields == derive_fields(c.fields, 1)
    IN  IF ~fields.ok THEN fields
        ELSE Ok([kind |-> "Struct", cls |-> c, fields |-> fields.val,
                 arrow_dtype |-> pa_struct([i \in 1..Len(fields.val) |->
                                    <<fields.val[i][1], fields.val[i][2].arrow_dtype>>])],
                {})

NotImplemented(c) == [ok |-> FALSE, err |-> "NotImplementedError", calls |-> {}, shape |-> c]

derive_arrow_marshaller(c) ==
    IF c.kind = "class" /\ c.name = "NoneType" THEN Ok(null, {})
    ELSE IF c.kind = "class" /\ c.name = "bool" THEN Ok(boolean, {})
    ELSE IF c.kind = "class" /\ c.name = "int" THEN Ok(int64, {})
    ELSE IF c.kind = "class" /\ c.name = "float" THEN Ok(float64, {})
    ELSE IF c.kind = "class" /\ c.name = "str" THEN Ok(string, {})
    ELSE IF c.kind = "class" /\ c.name = "bytes" THEN Ok(binary, {})
    ELSE IF is_dataclass(c) THEN StructArrowMarshaller(c)
    ELSE IF c.kind # "alias" THEN NotImplemented(c)
    ELSE IF ~c.origin_is_class THEN Err("TypeError")
    ELSE IF c.origin \in SequenceOrigins THEN
        IF Len(c.args) = 0 THEN Err("IndexError")
        ELSE LET e == derive_arrow_marshaller(c.args[1])
             IN  IF ~e.ok THEN e ELSE Ok(ListArrowMarshaller(e.val), {})
    ELSE IF c.origin \in MappingOrigins THEN
        IF Len(c.args) = 0 THEN Err("IndexError")
        ELSE LET k == derive_arrow_marshaller(c.args[1])
             IN  IF ~k.ok THEN k
                 ELSE IF Len(c.args) < 2 THEN Err("IndexError")
                 ELSE LET v == derive_arrow_marshaller(c.args[2])
                      IN  IF ~v.ok THEN v ELSE Ok(MapArrowMarshaller(k.val, v.val), {})
    ELSE NotImplemented(c)

-----------------------------------------------------------------------------
(* Python values *)

PyNone == [tag |-> "NoneType"]
PyBool(b) == [tag |-> "bool", val |-> b]
PyInt(n) == [tag |-> "int", val |-> n]
PyFloat(n) == [tag |-> "float", val |-> n]
PyStr(s) == [tag |-> "str", val |-> s]
PyBytes(s) == [tag |-> "bytes", val |-> s]
PyList(items) == [tag |-> "list", items |-> items]
PyTuple(items) == [tag |-> "tuple", items |-> items]
\* entries: the <<key, value>> pairs in insertion order, keys distinct
PyDict(entries) == [tag |-> "dict", entries |-> entries]
\* a dataclass instance; attrs: its __dict__ as <<name, value>> pairs
PyObject(c, attrs) == [tag |-> "object", cls |-> c, attrs |-> attrs]

\* py.__dict__
dunder_dict(o) == PyDict([i \in 1..Len(o.attrs) |-> <<PyStr(o.attrs[i][1]), o.attrs[i][2]>>])

RECURSIVE PyEq(_, _)
\* Python's ==: lists and dataclass instances compare element by element, dicts
\* compare as mappings whatever their insertion order.
PyEq(a, b) ==
    /\ a.tag = b.tag
    /\ CASE a.tag = "NoneType" -> TRUE
         [] a.tag \in {"bool", "int", "float", "str", "bytes"} -> a.val = b.val
         [] a.tag \in {"list", "tuple"} ->
                /\ Len(a.items) = Len(b.items)
                /\ \A i \in 1..Len(a.items) : PyEq(a.items[i], b.items[i])
         [] a.tag = "dict" ->
                /\ Len(a.entries) = Len(b.entries)
                /\ \A i \in 1..Len(a.entries) : \E j \in 1..Len(b.entries) :
                        /\ PyEq(a.entries[i][1], b.entries[j][1])
                        /\ PyEq(a.entries[i][2], b.entries[j][2])
         [] a.tag = "object" ->
                /\ a.cls = b.cls
                /\ Len(a.attrs) = Len(b.attrs)
                /\ \A i \in 1..Len(a.attrs) :
                        /\ a.attrs[i][1] = b.attrs[i][1]
                        /\ PyEq(a.attrs[i][2], b.attrs[i][2])
         [] OTHER -> a = b

RECURSIVE dict_of_pairs(_, _)
\* The dict built from the <<key, value>> pairs ps[1..n] in order: a repeated key
\* keeps its first position and takes the last value.
dict_of_pairs(ps, n) ==
    IF n = 0 THEN <<>>
    ELSE LET d == dict_of_pairs(ps, n - 1)
             hit == {j \in 1..Len(d) : PyEq(d[j][1], ps[n][1])}
         IN  IF hit = {} THEN Append(d, ps[n])
             ELSE [j \in 1..Len(d) |-> IF j \in hit THEN <<d[j][1], ps[n][2]>> ELSE d[j]]

-----------------------------------------------------------------------------
(* The Arrow engine: pa.scalar, pa.array, as_py, to_pylist, iteration *)

Scalar(type, value) == [tag |-> "Scalar", type |-> type, valid |-> TRUE, value |-> value]
\* pa.scalar(None, type=type)
NullScalar(type) == [tag |-> "Scalar", type |-> type, valid |-> FALSE, value |-> PyNone]
Array(type, items) == [tag |-> "Array", type |-> type, items |-> items]

\* The first failed outcome of rs, or the values of all of them.
Collect(rs) ==
    LET bad == {i \in 1..Len(rs) : ~rs[i].ok}
    IN  IF bad # {} THEN rs[CHOOSE i \in bad : \A j \in bad : i <= j]
        ELSE Ok([i \in 1..Len(rs) |-> rs[i].val], UNION {rs[i].calls : i \in 1..Len(rs)})

\* Whether the integer n fits the integer type id.  Every integer of the model
\* fits 32 and 64 bits.
InRange(id, n) ==
    CASE id = "int8" -> -128 <= n /\ n <= 127
      [] id = "int16" -> -32768 <= n /\ n <= 32767
      [] id = "uint8" -> 0 <= n /\ n <= 255
      [] id = "uint16" -> 0 <= n /\ n <= 65535
      [] id \in {"uint32", "uint64"} -> 0 <= n
      [] OTHER -> TRUE
IntIds == {"int8", "int16", "int32", "int64", "uint8", "uint16", "uint32", "uint64"}
FloatIds == {"halffloat", "float", "double"}

\* The value of key k in the dict entries es, or the marker [found |-> FALSE].
dict_get(es, k) ==
    LET hit == {j \in 1..Len(es) : PyEq(es[j][1], k)}
    IN  IF hit = {} THEN [found |-> FALSE, val |-> PyNone]
        ELSE [found |-> TRUE, val |-> es[CHOOSE j \in hit : TRUE][2]]

RECURSIVE pa_scalar(_, _)
\* pa.scalar(v, type=type): the scalar of exactly that type, or the exception
\* Arrow raises when v does not convert to it.  An element that is already an
\* Arrow scalar is taken as it is when its type is the expected one.
pa_scalar(v, type) ==
    IF v.tag = "Scalar" THEN
        IF v.type = type THEN Ok(v, {}) ELSE Err("ArrowInvalid")
    ELSE IF v.tag = "NoneType" THEN Ok(NullScalar(type), {})
    ELSE IF type.id = "null" THEN Err("ArrowInvalid")
    ELSE IF type.id = "bool" THEN
        IF v.tag = "bool" THEN Ok(Scalar(type, v), {}) ELSE Err("ArrowInvalid")
    ELSE IF type.id \in IntIds THEN
        IF v.tag # "int" THEN Err("ArrowInvalid")
        ELSE IF ~InRange(type.id, v.val) THEN Err("ArrowInvalid")
        ELSE Ok(Scalar(type, v), {})
    ELSE IF type.id \in FloatIds THEN
        IF v.tag = "float" THEN Ok(Scalar(type, v), {}) ELSE Err("ArrowInvalid")
    ELSE IF type.id = "string" THEN
        IF v.tag = "str" THEN Ok(Scalar(type, v), {}) ELSE Err("ArrowTypeError")
    ELSE IF type.id = "binary" THEN
        IF v.tag = "bytes" THEN Ok(Scalar(type, v), {}) ELSE Err("ArrowTypeError")
    ELSE IF type.id = "list" THEN
        IF v.tag \notin {"list", "tuple"} THEN Err("ArrowTypeError")
        ELSE LET subs == Collect([i \in 1..Len(v.items) |->
                                    pa_scalar(v.items[i], type.value_type)])
             IN  IF ~subs.ok THEN subs ELSE Ok(Scalar(type, subs.val), {})
    ELSE IF type.id = "map" THEN
        IF v.tag # "dict" THEN Err("ArrowTypeError")
        ELSE LET ks == Collect([i \in 1..Len(v.entries) |->
                                    pa_scalar(v.entries[i][1], type.key_type)])
                 vs == Collect([i \in 1..Len(v.entries) |->
                                    pa_scalar(v.entries[i][2], type.item_type)])
             IN  IF ~ks.ok THEN ks
                 ELSE IF ~vs.ok THEN vs
                 ELSE Ok(Scalar(type, [i \in 1..Len(v.entries) |-> <<ks.val[i], vs.val[i]>>]), {})
    ELSE \* struct: a dict is read field by field, a missing key is a null
        IF v.tag # "dict" THEN Err("ArrowTypeError")
        ELSE LET subs == Collect([i \in 1..Len(type.fields) |->
                            LET got == dict_get(v.entries, PyStr(type.fields[i][1]))
                            IN  pa_scalar(IF got.found THEN got.val ELSE PyNone,
                                          type.fields[i][2])])
             IN  IF ~subs.ok THEN subs
                 ELSE Ok(Scalar(type, [i \in 1..Len(type.fields) |->
                                        <<type.fields[i][1], subs.val[i]>>]), {})

\* pa.array(v, type=type)
pa_array(v, type) ==
    IF v.tag \notin {"list", "tuple"} THEN Err("ArrowTypeError")
    ELSE LET subs == Collect([i \in 1..Len(v.items) |-> pa_scalar(v.items[i], type)])
         IN  IF ~subs.ok THEN subs ELSE Ok(Array(type, subs.val), {})

RECURSIVE as_py(_)
\* scalar.as_py(): a list scalar gives a list, a map scalar a list of
\* (key, value) tuples, a struct scalar a dict, a null scalar None.
as_py(s) ==
    IF ~s.valid THEN PyNone
    ELSE IF s.type.id = "list" THEN PyList([i \in 1..Len(s.value) |-> as_py(s.value[i])])
    ELSE IF s.type.id = "map" THEN
        PyList([i \in 1..Len(s.value) |-> PyTuple(<<as_py(s.value[i][1]), as_py(s.value[i][2])>>)])
    ELSE IF s.type.id = "struct" THEN
        PyDict([i \in 1..Len(s.value) |-> <<PyStr(s.value[i][1]), as_py(s.value[i][2])>>])
    ELSE s.value

\* array.to_pylist()
to_pylist(a) == PyList([i \in 1..Len(a.items) |-> as_py(a.items[i])])

-----------------------------------------------------------------------------
(* The four operations of a marshaller *)

FieldNames(m) == {m.fields[i][1] : i \in 1..Len(m.fields)}
\* self.fields[f]
FieldMarshaller(m, f) == m.fields[CHOOSE i \in 1..Len(m.fields) : m.fields[i][1] = f][2]

\* The <<child, method>> calls of a comprehension over n elements.
Called(child, method, n) == IF n > 0 THEN {<<child, method>>} ELSE {}

\* self.cls(**kwargs), the __init__ a dataclass generates: every keyword is a
\* field, and a field without a keyword takes its default or is missing.
construct(c, kwargs) ==
    LET names == {kwargs[i][1] : i \in 1..Len(kwargs)}
        declared == {c.fields[i].name : i \in 1..Len(c.fields)}
        given(f) == kwargs[CHOOSE i \in 1..Len(kwargs) :
                        kwargs[i][1] = f /\ \A j \in (i + 1)..Len(kwargs) : kwargs[j][1] # f][2]
    IN  IF ~(names \subseteq declared) THEN Err("TypeError")
        ELSE IF \E i \in 1..Len(c.fields) :
                    c.fields[i].name \notin names /\ ~c.fields[i].has_default
             THEN Err("TypeError")
        ELSE Ok(PyObject(c.name, [i \in 1..Len(c.fields) |->
                    <<c.fields[i].name,
                      IF c.fields[i].name \in names THEN given(c.fields[i].name)
                      ELSE c.fields[i].default>>]), {})

Unhashable(v) == v.tag \in {"list", "dict", "object"}

RECURSIVE to_arrow(_, _)
RECURSIVE from_arrow(_, _)

\* A mutation of to_arrow: a Basic marshaller builds its scalar without type=,
\* and Arrow infers int64 for an int, double for a float, string for a str,
\* binary for bytes, bool for a bool and null for None.
to_arrow_untyped(m, v) ==
    IF m.kind = "Basic" THEN
        Ok(CASE v.tag = "int" -> Scalar(BasicType("int64"), v)
             [] v.tag = "float" -> Scalar(BasicType("double"), v)
             [] v.tag = "str" -> Scalar(BasicType("string"), v)
             [] v.tag = "bytes" -> Scalar(BasicType("binary"), v)
             [] v.tag = "bool" -> Scalar(BasicType("bool"), v)
             [] OTHER -> NullScalar(BasicType("null")), {})
    ELSE IF m.kind = "Struct" THEN
        IF v.tag # "object" THEN Err("AttributeError")
        ELSE pa_scalar(dunder_dict(v), m.arrow_dtype)
    ELSE pa_scalar(v, m.arrow_dtype)

to_arrow(m, v) ==
    CASE m.kind = "Basic" -> pa_scalar(v, m.arrow_dtype)
      [] m.kind = "List" ->
            IF IsBasic(m.elem) THEN pa_scalar(v, m.arrow_dtype)
            ELSE IF v.tag \notin {"list", "tuple"} THEN Err("TypeError")
            ELSE LET subs == Collect([i \in 1..Len(v.items) |-> to_arrow(m.elem, v.items[i])])
                     s == pa_scalar(PyList(subs.val), m.arrow_dtype)
                 IN  IF ~subs.ok THEN subs
                     ELSE IF ~s.ok THEN s
                     ELSE Ok(s.val, Called("elem", "to_arrow", Len(v.items)))
      [] m.kind = "Map" -> pa_scalar(v, m.arrow_dtype)
      [] m.kind = "Struct" ->
            IF v.tag # "object" THEN Err("AttributeError")
            ELSE pa_scalar(dunder_dict(v), m.arrow_dtype)

\* A mutation of from_arrow: a Struct marshaller decodes the fields by position,
\* the i-th physical field by the i-th declared child.
from_arrow_by_position(m, a) ==
    IF m.kind # "Struct" THEN
        IF a.tag # "Scalar" THEN Err("AttributeError") ELSE Ok(as_py(a), {})
    ELSE IF a.tag # "Scalar" \/ a.type.id # "struct" \/ ~a.valid THEN Err("AttributeError")
    ELSE IF Len(a.value) # Len(m.fields) THEN Err("TypeError")
    ELSE LET vals == Collect([i \in 1..Len(a.value) |-> from_arrow(m.fields[i][2], a.value[i][2])])
         IN  IF ~vals.ok THEN vals
             ELSE Ok(PyObject(m.cls.name, [i \in 1..Len(m.fields) |->
                        <<m.fields[i][1], vals.val[i]>>]), {})

from_arrow(m, a) ==
    IF a.tag # "Scalar" THEN Err("AttributeError")
    ELSE CASE m.kind = "Basic" -> Ok(as_py(a), {})
      [] m.kind = "List" ->
            IF IsBasic(m.elem) THEN Ok(as_py(a), {})
            ELSE IF a.type.id # "list" \/ ~a.valid THEN Err("TypeError")
            ELSE LET subs == Collect([i \in 1..Len(a.value) |-> from_arrow(m.elem, a.value[i])])
                 IN  IF ~subs.ok THEN subs
                     ELSE Ok(PyList(subs.val), Called("elem", "from_arrow", Len(a.value)))
      [] m.kind = "Map" ->
            IF a.type.id # "map" THEN Err("TypeError")
            ELSE IF IsBasic(m.key) /\ IsBasic(m.value) THEN
                IF ~a.valid THEN Ok(PyDict(<<>>), {})
                ELSE LET ps == [i \in 1..Len(a.value) |->
                                    <<as_py(a.value[i][1]), as_py(a.value[i][2])>>]
                     IN  IF \E i \in 1..Len(ps) : Unhashable(ps[i][1]) THEN Err("TypeError")
                         ELSE Ok(PyDict(dict_of_pairs(ps, Len(ps))), {})
            ELSE IF ~a.valid THEN Err("TypeError")
            ELSE LET ks == Collect([i \in 1..Len(a.value) |-> from_arrow(m.key, a.value[i][1])])
                     vs == Collect([i \in 1..Len(a.value) |-> from_arrow(m.value, a.value[i][2])])
                 IN  IF ~ks.ok THEN ks
                     ELSE IF ~vs.ok THEN vs
                     ELSE IF \E i \in 1..Len(ks.val) : Unhashable(ks.val[i]) THEN Err("TypeError")
                     ELSE Ok(PyDict(dict_of_pairs([i \in 1..Len(a.value) |->
                                                    <<ks.val[i], vs.val[i]>>], Len(a.value))),
                             Called("key", "from_arrow", Len(a.value))
                                \cup Called("value", "from_arrow", Len(a.value)))
      [] m.kind = "Struct" ->
            IF a.type.id # "struct" \/ ~a.valid THEN Err("AttributeError")
            ELSE LET vals == Collect([i \in 1..Len(a.value) |->
                                IF a.value[i][1] \notin FieldNames(m) THEN Err("KeyError")
                                ELSE from_arrow(FieldMarshaller(m, a.value[i][1]), a.value[i][2])])
                     obj == construct(m.cls, [i \in 1..Len(a.value) |->
                                                <<a.value[i][1], vals.val[i]>>])
                 IN  IF ~vals.ok THEN vals
                     ELSE IF ~obj.ok THEN obj
                     ELSE Ok(obj.val, {<<a.value[i][1], "from_arrow">> : i \in 1..Len(a.value)})

\* [self.to_arrow(sub) for sub in py], then pa.array of the scalars
ArrayOfScalars(m, xs) ==
    IF xs.tag \notin {"list", "tuple"} THEN Err("TypeError")
    ELSE LET subs == Collect([i \in 1..Len(xs.items) |-> to_arrow(m, xs.items[i])])
             a == pa_array(PyList(subs.val), m.arrow_dtype)
         IN  IF ~subs.ok THEN subs
             ELSE IF ~a.ok THEN a
             ELSE Ok(a.val, subs.calls)

to_arrow_array(m, xs) ==
    CASE m.kind = "Basic" -> pa_array(xs, m.arrow_dtype)
      [] m.kind = "List" ->
            IF IsBasic(m.elem) THEN pa_array(xs, m.arrow_dtype) ELSE ArrayOfScalars(m, xs)
      [] m.kind = "Map" ->
            IF IsBasic(m.key) /\ IsBasic(m.value) THEN pa_array(xs, m.arrow_dtype)
            ELSE ArrayOfScalars(m, xs)
      [] m.kind = "Struct" -> ArrayOfScalars(m, xs)

\* [self.from_arrow(sub) for sub in arrow]
ListOfValues(m, arr) ==
    LET subs == Collect([i \in 1..Len(arr.items) |-> from_arrow(m, arr.items[i])])
    IN  IF ~subs.ok THEN subs ELSE Ok(PyList(subs.val), subs.calls)

from_arrow_array(m, arr) ==
    IF arr.tag # "Array" THEN Err("AttributeError")
    ELSE CASE m.kind = "Basic" -> Ok(to_pylist(arr), {})
      [] m.kind = "List" ->
            IF IsBasic(m.elem) THEN Ok(to_pylist(arr), {}) ELSE ListOfValues(m, arr)
      [] m.kind \in {"Map", "Struct"} -> ListOfValues(m, arr)

-----------------------------------------------------------------------------
(* The types marshallers are derived for *)

NoneType_ == Class("NoneType")
bool_ == Class("bool")
int_ == Class("int")
float_ == Class("float")
str_ == Class("str")
bytes_ == Class("bytes")
complex_ == Class("complex")

list_of(t) == Alias("list", TRUE, <<t>>)
dict_of(k, v) == Alias("dict", TRUE, <<k, v>>)
\* typing.Union[int, str]: its origin typing.Union is not a class before Python 3.14
typing_Union == Alias("Union", FALSE, <<int_, str_>>)
\* int | str: its origin types.UnionType is a class
UnionType == Alias("UnionType", TRUE, <<int_, str_>>)
tuple_int_str == Alias("tuple", TRUE, <<int_, str_>>)
set_of_int == Alias("set", TRUE, <<int_>>)

Plain(name, type) == DataField(name, type, NoMarshaller, FALSE, PyNone)

Person == Dataclass("Person", <<Plain("name", str_), Plain("age", int_), Plain("gender", bool_)>>)
Point == Dataclass("Point", <<Plain("x", int_)>>)
Team == Dataclass("Team", <<Plain("lead", Point), Plain("size", int_)>>)
Account == Dataclass("Account",
    <<Plain("owner", str_),
      DataField("balance", int_, NoMarshaller, TRUE, PyInt(0))>>)
\* both fields carry metadata={'arrow_marshaller': ...}
Tagged == Dataclass("Tagged",
    <<DataField("id", int_, int8, FALSE, PyNone),
      DataField("label", UnionType, string, FALSE, PyNone)>>)
Broken == Dataclass("Broken", <<Plain("id", int_), Plain("label", UnionType)>>)

Types == <<NoneType_, bool_, int_, float_, str_, bytes_,
           list_of(int_), list_of(Point), list_of(dict_of(bytes_, NoneType_)),
           dict_of(str_, int_), dict_of(str_, Point), dict_of(bytes_, list_of(NoneType_)),
           Person, Point, Team, Account, Tagged,
           tuple_int_str, complex_, typing_Union, UnionType, set_of_int,
           list_of(UnionType), dict_of(str_, complex_), Broken>>

-----------------------------------------------------------------------------
(* The inputs: the values of a marshaller's shape, and Arrow scalars *)

IntVals == {0, 1}
FloatVals == {0}
StrVals == {"a", "b"}
BytesVals == {"x"}

SeqsUpTo(S, n) == UNION {[1..k -> S] : k \in 0..n}

\* The keys of the <<key, value>> pairs are distinct.
DistinctKeys(s) == \A i, j \in 1..Len(s) : i # j => s[i][1] # s[j][1]

RECURSIVE Values(_)
RECURSIVE AttrSeqs(_, _)
\* The <<name, value>> sequences of the first n fields of the Struct marshaller m.
AttrSeqs(m, n) ==
    IF n = 0 THEN {<<>>}
    ELSE {Append(s, <<m.fields[n][1], v>>) : s \in AttrSeqs(m, n - 1), v \in Values(m.fields[n][2])}

\* The Python values of the shape the marshaller m stands for.
Values(m) ==
    CASE m.kind = "Basic" ->
           (CASE m.py_type = "NoneType" -> {PyNone}
              [] m.py_type = "bool" -> {PyBool(b) : b \in BOOLEAN}
              [] m.py_type = "int" -> {PyInt(n) : n \in {k \in IntVals : InRange(m.arrow_dtype.id, k)}}
              [] m.py_type = "float" -> {PyFloat(n) : n \in FloatVals}
              [] m.py_type = "str" -> {PyStr(x) : x \in StrVals}
              [] m.py_type = "bytes" -> {PyBytes(x) : x \in BytesVals})
      [] m.kind = "List" -> {PyList(s) : s \in SeqsUpTo(Values(m.elem), MaxLen)}
      [] m.kind = "Map" ->
            {PyDict(s) : s \in {e \in SeqsUpTo(Values(m.key) \X Values(m.value), MaxLen) :
                                    DistinctKeys(e)}}
      [] m.kind = "Struct" -> {PyObject(m.cls.name, s) : s \in AttrSeqs(m, Len(m.fields))}

RECURSIVE ArrowScalars(_)
RECURSIVE StructValues(_, _)
StructValues(fields, n) ==
    IF n = 0 THEN {<<>>}
    ELSE {Append(s, <<fields[n][1], v>>) :
            s \in StructValues(fields, n - 1), v \in ArrowScalars(fields[n][2])}

\* The valid Arrow scalars of a data type.
ArrowScalars(type) ==
    CASE type.id = "null" -> {NullScalar(type)}
      [] type.id = "bool" -> {Scalar(type, PyBool(b)) : b \in BOOLEAN}
      [] type.id \in IntIds -> {Scalar(type, PyInt(n)) : n \in {k \in IntVals : InRange(type.id, k)}}
      [] type.id \in FloatIds -> {Scalar(type, PyFloat(n)) : n \in FloatVals}
      [] type.id = "string" -> {Scalar(type, PyStr(x)) : x \in StrVals}
      [] type.id = "binary" -> {Scalar(type, PyBytes(x)) : x \in BytesVals}
      [] type.id = "list" -> {Scalar(type, s) : s \in SeqsUpTo(ArrowScalars(type.value_type), MaxLen)}
      [] type.id = "map" ->
            {Scalar(type, s) : s \in {e \in SeqsUpTo(ArrowScalars(type.key_type)
                                                        \X ArrowScalars(type.item_type), MaxLen) :
                                        DistinctKeys(e)}}
      [] type.id = "struct" -> {Scalar(type, s) : s \in StructValues(type.fields, Len(type.fields))}

-----------------------------------------------------------------------------
(* Arrow scalars handed to from_arrow that no to_arrow of the marshaller made *)

\* Data types other marshallers produce.
OtherTypes == <<BasicType("int8"), BasicType("int64"), BasicType("string"),
                pa_list_(BasicType("int64")), pa_list_(BasicType("string")),
                pa_map_(BasicType("string"), BasicType("int64")),
                pa_map_(BasicType("string"), BasicType("string"))>>

\* A map scalar iterates as Python tuples and has no items(): it is not handed
\* to a marshaller that would iterate it for its children or call items() on it.
Feedable(m, type) ==
    CASE m.kind = "List" /\ ~IsBasic(m.elem) -> type.id # "map"
      [] m.kind = "Struct" -> type.id # "map"
      [] OTHER -> TRUE

\* A field the dataclass does not declare.
ExtraField == "extra"

\* The physical field sequences of a struct scalar: any of the declared names and
\* the undeclared one, in any order, none twice.
FieldOrders(m) ==
    {o \in SeqsUpTo(FieldNames(m) \cup {ExtraField}, Len(m.fields) + 1) :
        \A i, j \in 1..Len(o) : i # j => o[i] # o[j]}

StructTypeOf(m, o) ==
    pa_struct([i \in 1..Len(o) |->
        <<o[i], IF o[i] \in FieldNames(m) THEN FieldMarshaller(m, o[i]).arrow_dtype
                ELSE BasicType("int64")>>])

-----------------------------------------------------------------------------
(* The state machine: a marshaller is obtained, then used *)

\* The marshallers the module exports by name.
Exported == <<null, boolean, int8, int16, int32, int64, uint8, uint16, uint32, uint64,
              float16, float32, float64, string, binary>>

Init ==
    /\ cls = NoneType_
    /\ marshaller = Ok(null, {})
    /\ op = "idle"
    /\ provenance = "none"
    /\ arg = PyNone
    /\ py = PyNone
    /\ result = Ok(PyNone, {})

Obtained(c, m) ==
    /\ cls' = c
    /\ marshaller' = m
    /\ op' = "idle"
    /\ provenance' = "none"
    /\ arg' = PyNone
    /\ py' = PyNone
    /\ result' = Ok(PyNone, {})

\* fa.derive_arrow_marshaller(cls)
Derive == op = "idle" /\ \E i \in 1..Len(Types) : Obtained(Types[i], derive_arrow_marshaller(Types[i]))

\* fa.int8, fa.string, ...
Import == op = "idle" /\ \E i \in 1..Len(Exported) : Obtained(Class(Exported[i].py_type), Ok(Exported[i], {}))

\* marshaller.to_arrow(v)
ToArrow ==
    /\ marshaller.ok
    /\ op = "idle"
    /\ \E v \in Values(marshaller.val) :
        /\ op' = "to_arrow"
        /\ provenance' = "value"
        /\ arg' = v
        /\ py' = v
        /\ result' = to_arrow(marshaller.val, v)
    /\ UNCHANGED <<cls, marshaller>>

\* marshaller.from_arrow(a) of the scalar a the last to_arrow returned
FromArrow ==
    /\ marshaller.ok
    /\ op = "to_arrow"
    /\ result.ok
    /\ op' = "from_arrow"
    /\ provenance' = "encoded"
    /\ arg' = result.val
    /\ result' = from_arrow(marshaller.val, result.val)
    /\ UNCHANGED <<cls, marshaller, py>>

\* marshaller.to_arrow_array(xs)
ToArrowArray ==
    /\ marshaller.ok
    /\ op = "idle"
    /\ \E xs \in SeqsUpTo(Values(marshaller.val), MaxArr) :
        /\ op' = "to_arrow_array"
        /\ provenance' = "value"
        /\ arg' = PyList(xs)
        /\ py' = PyList(xs)
        /\ result' = to_arrow_array(marshaller.val, PyList(xs))
    /\ UNCHANGED <<cls, marshaller>>

\* marshaller.from_arrow_array(a) of the array a the last to_arrow_array returned
FromArrowArray ==
    /\ marshaller.ok
    /\ op = "to_arrow_array"
    /\ result.ok
    /\ op' = "from_arrow_array"
    /\ provenance' = "encoded"
    /\ arg' = result.val
    /\ result' = from_arrow_array(marshaller.val, result.val)
    /\ UNCHANGED <<cls, marshaller, py>>

Decoded(a) ==
    /\ op' = "from_arrow"
    /\ provenance' = "foreign"
    /\ arg' = a
    /\ py' = PyNone
    /\ result' = from_arrow(marshaller.val, a)
    /\ UNCHANGED <<cls, marshaller>>

\* marshaller.from_arrow(a) of a scalar of some other marshaller's data type
DecodeScalar ==
    /\ marshaller.ok
    /\ op = "idle"
    /\ \E i \in 1..Len(OtherTypes) :
        /\ Feedable(marshaller.val, OtherTypes[i])
        /\ \E a \in ArrowScalars(OtherTypes[i]) : Decoded(a)

\* struct.from_arrow(a) of a struct scalar with any field set in any order
DecodeStruct ==
    /\ marshaller.ok
    /\ op = "idle"
    /\ marshaller.val.kind = "Struct"
    /\ \E o \in FieldOrders(marshaller.val) :
        \E a \in ArrowScalars(StructTypeOf(marshaller.val, o)) : Decoded(a)

\* The operation returns to its caller, which keeps the marshaller for the next call.
Return ==
    /\ op # "idle"
    /\ op' = "idle"
    /\ provenance' = "none"
    /\ arg' = PyNone
    /\ py' = PyNone
    /\ result' = Ok(PyNone, {})
    /\ UNCHANGED <<cls, marshaller>>

Next ==
    \/ Derive
    \/ Import
    \/ ToArrow
    \/ FromArrow
    \/ ToArrowArray
    \/ FromArrowArray
    \/ DecodeScalar
    \/ DecodeStruct
    \/ Return

Spec == Init /\ [][Next]_vars

-----------------------------------------------------------------------------
(* The shapes the derivation is specified for *)

Primitives == {"NoneType", "bool", "int", "float", "str", "bytes"}

RECURSIVE Supported(_)
\* A primitive, a record whose every field is supported or carries an override,
\* a homogeneous sequence of a supported shape, or a homogeneous association of
\* supported shapes.
Supported(c) ==
    CASE c.kind = "class" -> c.name \in Primitives
      [] c.kind = "dataclass" ->
            \A i \in 1..Len(c.fields) :
                c.fields[i].arrow_marshaller # NoMarshaller \/ Supported(c.fields[i].type)
      [] c.kind = "alias" ->
            \/ c.origin \in {"list", "Sequence"} /\ Len(c.args) = 1 /\ Supported(c.args[1])
            \/ /\ c.origin \in MappingOrigins /\ Len(c.args) = 2
               /\ Supported(c.args[1]) /\ Supported(c.args[2])

\* The exception derive_arrow_marshaller raises for a shape it has no rule for.
DerivationError == "NotImplementedError"

-----------------------------------------------------------------------------
(* Claims *)

\* C1: scalar round trip.  For every marshaller of a supported shape and every
\* value v of the shape, to_arrow(v) succeeds and from_arrow of what it returned
\* succeeds and equals v.
ScalarRoundTrip ==
    Supported(cls) =>
        /\ op = "to_arrow" => result.ok
        /\ (op = "from_arrow" /\ provenance = "encoded") => result.ok /\ PyEq(result.val, py)

\* C2: array round trip.  For every marshaller of a supported shape and every
\* finite sequence xs of values of the shape, to_arrow_array(xs) succeeds and
\* from_arrow_array of what it returned succeeds and equals xs.
ArrayRoundTrip ==
    Supported(cls) =>
        /\ op = "to_arrow_array" => result.ok
        /\ op = "from_arrow_array" => result.ok /\ PyEq(result.val, py)

\* C3: dtype stability.  Whenever to_arrow or to_arrow_array succeeds, the type
\* of the scalar or array it returns is the marshaller's arrow_dtype.
DtypeStability ==
    (op \in {"to_arrow", "to_arrow_array"} /\ result.ok) =>
        result.val.type = marshaller.val.arrow_dtype

\* C3 witness: a Struct marshaller has encoded an array of MaxArr records.
DtypeStabilityWitness ==
    /\ op = "to_arrow_array"
    /\ result.ok
    /\ marshaller.val.kind = "Struct"
    /\ Len(result.val.items) = MaxArr

\* C4: a shape that is no supported primitive, record, homogeneous sequence or
\* homogeneous association, at the top level or nested without an override, is
\* refused with DerivationError naming it; no marshaller is returned for it.
UnsupportedShapeRefused ==
    ~Supported(cls) =>
        /\ ~marshaller.ok
        /\ marshaller.err = DerivationError
        /\ ~Supported(marshaller.shape)

\* C5: a field's override marshaller is the Struct marshaller's child for that
\* field, unchanged, whatever the field's declared type is, and the field's data
\* type in the struct data type is the override's.
OverridePrecedence ==
    (is_dataclass(cls) /\ Supported(cls)) =>
        /\ marshaller.ok
        /\ Len(marshaller.val.fields) = Len(cls.fields)
        /\ \A i \in 1..Len(cls.fields) :
            cls.fields[i].arrow_marshaller # NoMarshaller =>
                /\ marshaller.val.fields[i] = <<cls.fields[i].name, cls.fields[i].arrow_marshaller>>
                /\ marshaller.val.arrow_dtype.fields[i]
                     = <<cls.fields[i].name, cls.fields[i].arrow_marshaller.arrow_dtype>>

\* C5 witness: a record is derived whose field of an unsupported declared type
\* carries an override.
OverridePrecedenceWitness ==
    /\ is_dataclass(cls)
    /\ marshaller.ok
    /\ \E i \in 1..Len(cls.fields) :
        /\ cls.fields[i].arrow_marshaller # NoMarshaller
        /\ ~Supported(cls.fields[i].type)

\* C6: from_arrow of a scalar whose type is not the marshaller's arrow_dtype
\* fails (with ConversionError) and returns no value.
WrongDtypeRefused ==
    (op = "from_arrow" /\ arg.type # marshaller.val.arrow_dtype) => ~result.ok

PhysicalNames(a) == {a.value[i][1] : i \in 1..Len(a.value)}
IsStructDecode ==
    /\ op = "from_arrow"
    /\ marshaller.val.kind = "Struct"
    /\ arg.type.id = "struct"

\* C7: Struct from_arrow of a struct scalar whose field name set is not the
\* declared one never returns a record (it fails with ConversionError when a
\* required field is absent, with SchemaMismatchError otherwise).
FieldSetMismatchRefused ==
    (IsStructDecode /\ PhysicalNames(arg) # FieldNames(marshaller.val)) => ~result.ok

\* The scalar of field f in the struct scalar a.
PhysicalField(a, f) == a.value[CHOOSE i \in 1..Len(a.value) : a.value[i][1] = f][2]

\* C8: field-order independence.  Struct from_arrow of a struct scalar with the
\* declared field name set succeeds whatever the physical order of the fields,
\* and the record's field f is what the child marshaller of f decodes from the
\* scalar's field f.
FieldOrderIndependence ==
    (IsStructDecode /\ PhysicalNames(arg) = FieldNames(marshaller.val)) =>
        /\ result.ok
        /\ result.val.cls = cls.name
        /\ Len(result.val.attrs) = Len(marshaller.val.fields)
        /\ \A i \in 1..Len(marshaller.val.fields) :
            LET f == marshaller.val.fields[i]
                v == from_arrow(f[2], PhysicalField(arg, f[1]))
            IN  /\ v.ok
                /\ result.val.attrs[i][1] = f[1]
                /\ PyEq(result.val.attrs[i][2], v.val)

\* C8 witness: a struct scalar of three or more fields is decoded whose physical
\* field order is the reverse of the declared one.
FieldOrderIndependenceWitness ==
    /\ IsStructDecode
    /\ Len(arg.value) >= 3
    /\ Len(arg.value) = Len(marshaller.val.fields)
    /\ \A i \in 1..Len(arg.value) :
            arg.value[i][1] = marshaller.val.fields[Len(arg.value) + 1 - i][1]
    /\ result.ok

\* C9: Struct to_arrow hands every declared field's value to that field's child
\* marshaller's to_arrow before the struct scalar is built.
StructEncodeDelegates ==
    (op = "to_arrow" /\ marshaller.val.kind = "Struct" /\ result.ok) =>
        \A f \in FieldNames(marshaller.val) : <<f, "to_arrow">> \in result.calls

\* The number of entries of the maps of the last operation's input.
Entries(v) ==
    CASE v.tag = "dict" -> Len(v.entries)
      [] v.tag = "Scalar" -> Len(v.value)
      [] v.tag = "list" -> Cardinality({i \in 1..Len(v.items) : Len(v.items[i].entries) > 0})
      [] v.tag = "Array" -> Cardinality({i \in 1..Len(v.items) : Len(v.items[i].value) > 0})

\* C10: a Map marshaller whose key or value marshaller is not Basic encodes and
\* decodes entry by entry through the key and the value marshaller, in all four
\* operations.
MapDualPath ==
    (/\ op \in {"to_arrow", "from_arrow", "to_arrow_array", "from_arrow_array"}
     /\ provenance # "foreign"
     /\ marshaller.val.kind = "Map"
     /\ ~(IsBasic(marshaller.val.key) /\ IsBasic(marshaller.val.value))
     /\ result.ok
     /\ Entries(arg) > 0) =>
        LET method == IF op \in {"to_arrow", "to_arrow_array"} THEN "to_arrow" ELSE "from_arrow"
        IN  {<<"key", method>>, <<"value", method>>} \subseteq result.calls
====
